---- MODULE Spec2Model ----
(***************************************************************************)
(* The R library-path management functions that 2.rSetup.py writes to      *)
(* libs_install.r (the string template of lines 25-160): setUserLibPath,   *)
(* removeUserLibPath, getUserLibPath, databricks.install.packages,         *)
(* databricks.install.github and databricks.install_version, run by one    *)
(* single-threaded R session.                                              *)
(*                                                                         *)
(* State of the session: the library search path held by .libPaths(), the  *)
(* directories that exist on disk, the packages each directory holds, and  *)
(* the position and local variables of the call in progress.               *)
(*                                                                         *)
(* R primitives the functions call are modelled by what R documents:       *)
(*   .libPaths(new)  sets the path to the existing directories of          *)
(*                   unique(c(new, .Library.site, .Library));              *)
(*   setdiff(x, y)   is unique(x[!x %in% y]);                              *)
(*   tempfile()      returns a name that does not exist yet;               *)
(*   withr::with_libpaths(new, code) saves .libPaths(), calls              *)
(*                   .libPaths(new), runs code, and restores the saved     *)
(*                   path on exit, also when code fails;                   *)
(*   f(x, repos=r)   on a function whose formals are (pkgName, repo) is an *)
(*                   "unused argument" error (a supplied name matches a    *)
(*                   formal only when it is a prefix of it);               *)
(*   system("cp ..") returns a status and raises no error.                 *)
(* A failing installer is an error that ends the call (the session sources *)
(* the script under options(warn = 2), line 197).                          *)
(***************************************************************************)
EXTENDS Integers, Sequences, FiniteSets, TLC

VARIABLES searchPath,   \* .libPaths(): sequence of directories
          dirs,         \* directories that exist on disk
          files,        \* files[d]: packages installed in directory d
          pc,           \* position of the session: "start", "idle" or a line of a call
          tmpDir,       \* local tmpDir of the install call in progress
          tmpPath,      \* local tmpPath of databricks.install.github
          pkgName,      \* package the call in progress installs
          oldLibPaths,  \* path saved by withr::with_libpaths
          last,         \* the call last entered: its name, argument and outcome
          ret           \* value the last call returned: a path, or a search path

vars == <<searchPath, dirs, files, pc, tmpDir, tmpPath, pkgName, oldLibPaths,
          last, ret>>

----------------------------------------------------------------------------
\* Bounds of the model

\* number of names tempfile() can hand out in one session
MaxTmp == 2

----------------------------------------------------------------------------
\* Paths, packages

rstudio_home_path == "/mnt/r_files_home"

\* "{0}/{1}".format("/dbfs" + rstudio_home_path, "rlib"): default of setUserLibPath
DefaultUsrLibPath == "/dbfs" \o rstudio_home_path \o "/" \o "rlib"

\* a root other than the default that a user passes to setUserLibPath
OtherRoot == "/home/u/rlib"

\* getRversion()
getRversion == "4.1.2"

\* .Library and .Library.site of the R installation
Library == "/usr/lib/R/library"

LibrarySite == "/usr/lib/R/site-library"

\* a path that is never on the search path
Nowhere == "/nowhere"

\* tempfile(pattern = "rlib"): the i-th name of the pool
TmpName(i) == "/tmp/rlib" \o ToString(i)

TmpNames == {TmpName(i) : i \in 1..MaxTmp}

\* file.path(a, b)
FilePath(a, b) == a \o "/" \o b

Helpers == {"devtools", "withr"}

Pkgs == Helpers \cup {"foo"}

None == ""

----------------------------------------------------------------------------
\* R primitives

Range(s) == {s[i] : i \in 1..Len(s)}

\* x %in% s
In(x, s) == x \in Range(s)

RECURSIVE unique(_)
\* unique(s): the first occurrence of every element, in order
unique(s) ==
    IF s = <<>> THEN <<>>
    ELSE LET r == unique(SubSeq(s, 1, Len(s) - 1))
             x == s[Len(s)]
         IN IF In(x, r) THEN r ELSE Append(r, x)

\* setdiff(s, y) for a single y: unique(s[!s %in% y])
setdiff(s, y) == unique(SelectSeq(s, LAMBDA e : e # y))

\* .libPaths(new) without its unique()
libPaths_nounique(new, exist) ==
    SelectSeq(new \o <<LibrarySite, Library>>, LAMBDA d : d \in exist)

\* the value .libPaths(new) gives the search path when the directories
\* of exist are on disk
libPaths(new, exist) ==
    unique(SelectSeq(new \o <<LibrarySite, Library>>, LAMBDA d : d \in exist))

\* library(p, logical.return=TRUE) / require(p): is p in a directory of sp
Available(p, sp) == \E i \in 1..Len(sp) : p \in files[sp[i]]

\* a copy that copies nothing
cp_nothing(from, to) == files' = files

\* cp -r from/* to
cp(from, to) == files' = [files EXCEPT ![to] = @ \cup files[from]]

\* packages an installer run may pull in as dependencies (dependencies=TRUE)
Deps == {"withr"}

\* what a successful installer run writes into its target for package p:
\* p and whichever dependencies it pulls in
InstallerOutputs(p) == {{p} \cup D : D \in SUBSET (Deps \ {p})}

\* the installer has written out into directory lib
Installed(lib, out) == files' = [files EXCEPT ![lib] = @ \cup out]

\* tempfile(pattern = "rlib"): a name that does not exist yet
tempfile == TmpName(Cardinality(TmpNames \cap dirs) + 1)

\* tempfile() still has a name of the pool to hand out
CanTemp == Cardinality(TmpNames \cap dirs) < MaxTmp

----------------------------------------------------------------------------
\* setUserLibPath, removeUserLibPath, getUserLibPath

\* usrLibPathVer = file.path(usrLibPath, getRversion())
usrLibPathVer(usrLibPath) == FilePath(usrLibPath, getRversion)

\* setUserLibPath with the prepend of line 54 turned into an append
SetSearchPath_append(sp, q) ==
    LET s1 == IF In(q, sp) THEN setdiff(sp, q) ELSE sp
    IN s1 \o <<q>>

\* lines 48-54: the local search.path setUserLibPath hands to .libPaths
SetSearchPath(sp, q) ==
    LET s1 == IF In(q, sp) THEN setdiff(sp, q) ELSE sp
    IN <<q>> \o s1

\* lines 43-45: the directories on disk after setUserLibPath(usrLibPath)
SetUserLibPathDirs(exist, usrLibPath) ==
    LET q == usrLibPathVer(usrLibPath)
    IN IF q \in exist THEN exist ELSE exist \cup {usrLibPath, q}

\* the search path setUserLibPath(usrLibPath) commits, from search path sp
SetUserLibPathResult(sp, exist, usrLibPath) ==
    libPaths(SetSearchPath(sp, usrLibPathVer(usrLibPath)),
             SetUserLibPathDirs(exist, usrLibPath))

\* the body of setUserLibPath(usrLibPath): its effect on disk and search path
setUserLibPath(usrLibPath) ==
    /\ dirs' = SetUserLibPathDirs(dirs, usrLibPath)
    /\ searchPath' = SetUserLibPathResult(searchPath, dirs, usrLibPath)

\* the local search.path removeUserLibPath returns
RemovedSearchPath(sp, p) == IF In(p, sp) THEN setdiff(sp, p) ELSE sp

\* removeUserLibPath without the .libPaths(search.path) of line 73
RemoveCommitted_nocommit(sp, exist, p) == sp

\* the search path removeUserLibPath(p) commits, from search path sp
RemoveCommitted(sp, exist, p) ==
    IF In(p, sp) THEN libPaths(setdiff(sp, p), exist) ELSE sp

\* the body of removeUserLibPath(usrLibPath): its effect on the search path
removeUserLibPath(usrLibPath) ==
    searchPath' = RemoveCommitted(searchPath, dirs, usrLibPath)

\* the value getUserLibPath returns
getUserLibPathValue ==
    LET usrLibPath == "/dbfs" \o rstudio_home_path \o "/" \o "rlib"
    IN FilePath(usrLibPath, getRversion)

\* values a call returns
NoValue == [path |-> None, search |-> <<>>]

PathValue(p) == [path |-> p, search |-> <<>>]

SearchValue(sp) == [path |-> None, search |-> sp]

Idle == [op |-> "none", arg |-> None, status |-> "none"]

Call(op, arg, status) == [op |-> op, arg |-> arg, status |-> status]

NoLocals == /\ tmpDir' = None
            /\ tmpPath' = None
            /\ pkgName' = None
            /\ oldLibPaths' = <<>>

\* arguments a user passes to setUserLibPath
Roots == {DefaultUsrLibPath, OtherRoot}

\* arguments a user passes to removeUserLibPath: any entry of the search
\* path, the canonical path and a path that is on no search path
RemoveArgs == Range(searchPath) \cup {usrLibPathVer(DefaultUsrLibPath), Nowhere}

----------------------------------------------------------------------------
\* Initial state: R has started, libs_install.r has defined the functions and
\* is about to run its last line, setUserLibPath() (line 159).

AllDirs == {Library, LibrarySite, Nowhere}
             \cup {r : r \in Roots} \cup {usrLibPathVer(r) : r \in Roots}
             \cup TmpNames \cup {usrLibPathVer(t) : t \in TmpNames}

Init ==
    /\ searchPath = <<LibrarySite, Library>>
    /\ dirs \in {{Library, LibrarySite},
                 {Library, LibrarySite,
                  DefaultUsrLibPath, usrLibPathVer(DefaultUsrLibPath)}}
    /\ \E h \in SUBSET Helpers :
          files = [d \in AllDirs |-> IF d = LibrarySite THEN h ELSE {}]
    /\ pc = "start"
    /\ tmpDir = None
    /\ tmpPath = None
    /\ pkgName = None
    /\ oldLibPaths = <<>>
    /\ last = Idle
    /\ ret = NoValue

\* line 159: setUserLibPath() as the script is sourced
SessionStart ==
    /\ pc = "start"
    /\ setUserLibPath(DefaultUsrLibPath)
    /\ pc' = "idle"
    /\ last' = Call("sessionStart", DefaultUsrLibPath, "ok")
    /\ ret' = PathValue(usrLibPathVer(DefaultUsrLibPath))
    /\ UNCHANGED <<files, tmpDir, tmpPath, pkgName, oldLibPaths>>

\* a user's call setUserLibPath(root)
SetUserLibPathCall ==
    /\ pc = "idle"
    /\ \E root \in Roots :
          /\ setUserLibPath(root)
          /\ last' = Call("setUserLibPath", root, "ok")
          /\ ret' = PathValue(usrLibPathVer(root))
    /\ UNCHANGED <<files, pc, tmpDir, tmpPath, pkgName, oldLibPaths>>

\* a user's call removeUserLibPath(path)
RemoveUserLibPathCall ==
    /\ pc = "idle"
    /\ \E path \in RemoveArgs :
          /\ removeUserLibPath(path)
          /\ last' = Call("removeUserLibPath", path, "ok")
          /\ ret' = SearchValue(RemovedSearchPath(searchPath, path))
    /\ UNCHANGED <<dirs, files, pc, tmpDir, tmpPath, pkgName, oldLibPaths>>

\* getUserLibPath written as setUserLibPath is: it creates and inserts the path
getUserLibPath_setting ==
    /\ pc = "idle"
    /\ setUserLibPath(DefaultUsrLibPath)
    /\ ret' = PathValue(getUserLibPathValue)
    /\ last' = Call("getUserLibPath", None, "ok")
    /\ UNCHANGED <<files, pc, tmpDir, tmpPath, pkgName, oldLibPaths>>

\* a user's call getUserLibPath()
getUserLibPath ==
    /\ pc = "idle"
    /\ ret' = PathValue(getUserLibPathValue)
    /\ last' = Call("getUserLibPath", None, "ok")
    /\ UNCHANGED <<searchPath, dirs, files, pc, tmpDir, tmpPath, pkgName,
                   oldLibPaths>>

\* the call in progress ends with an error
Fails(cause) ==
    /\ pc' = "idle"
    /\ last' = [last EXCEPT !.status = cause]
    /\ NoLocals

\* the call in progress returns value
Returns(value) ==
    /\ pc' = "idle"
    /\ last' = [last EXCEPT !.status = "ok"]
    /\ ret' = PathValue(value)
    /\ NoLocals

\* packages a user asks an install function for
PkgArgs == {"foo", "devtools"}

----------------------------------------------------------------------------
\* databricks.install.packages(pkgName, repo), lines 91-108

\* line 101: usrLibPath = setUserLibPath()
install_packages_101 ==
    /\ pc = "idle"
    /\ CanTemp
    /\ \E p \in PkgArgs :
          /\ pkgName' = p
          /\ last' = Call("installPackage", p, "running")
    /\ setUserLibPath(DefaultUsrLibPath)
    /\ pc' = "ip_102"
    /\ ret' = NoValue
    /\ UNCHANGED <<files, tmpDir, tmpPath, oldLibPaths>>

\* lines 102-103: tmpDir <- tempfile(); dir.create(tmpDir)
install_packages_102 ==
    /\ pc = "ip_102"
    /\ tmpDir' = tempfile
    /\ dirs' = dirs \cup {tmpDir'}
    /\ pc' = "ip_104"
    /\ UNCHANGED <<searchPath, files, tmpPath, pkgName, oldLibPaths, last,
                   ret>>

\* line 104: install.packages(pkgName, ..., lib = tmpDir) succeeds
install_packages_104 ==
    /\ pc = "ip_104"
    /\ \E out \in InstallerOutputs(pkgName) : Installed(tmpDir, out)
    /\ pc' = "ip_105"
    /\ UNCHANGED <<searchPath, dirs, tmpDir, tmpPath, pkgName, oldLibPaths,
                   last, ret>>

\* line 104: install.packages fails; the error ends the call
install_packages_104_fail ==
    /\ pc = "ip_104"
    /\ Fails("installer_error")
    /\ UNCHANGED <<searchPath, dirs, files, ret>>

\* line 105: system("cp -r tmpDir/* usrLibPath")
install_packages_105 ==
    /\ pc = "ip_105"
    /\ cp(tmpDir, usrLibPathVer(DefaultUsrLibPath))
    /\ pc' = "ip_106"
    /\ UNCHANGED <<searchPath, dirs, tmpDir, tmpPath, pkgName, oldLibPaths,
                   last, ret>>

\* lines 106-107: removeUserLibPath(tmpDir); tmpDir
install_packages_106 ==
    /\ pc = "ip_106"
    /\ removeUserLibPath(tmpDir)
    /\ Returns(tmpDir)
    /\ UNCHANGED <<dirs, files>>

----------------------------------------------------------------------------
\* databricks.install.github(repo), lines 110-128

\* lines 119-120: tmpDir <- tempfile(); dir.create(tmpDir)
install_github_119 ==
    /\ pc = "idle"
    /\ CanTemp
    /\ tmpDir' = tempfile
    /\ dirs' = dirs \cup {tmpDir'}
    /\ pkgName' = "foo"
    /\ last' = Call("installFromSourceRepo", "foo", "running")
    /\ pc' = "gh_121"
    /\ ret' = NoValue
    /\ UNCHANGED <<searchPath, files, tmpPath, oldLibPaths>>

\* line 121: tmpPath = setUserLibPath(tmpDir)
install_github_121 ==
    /\ pc = "gh_121"
    /\ setUserLibPath(tmpDir)
    /\ tmpPath' = usrLibPathVer(tmpDir)
    /\ pc' = "gh_122"
    /\ UNCHANGED <<files, tmpDir, pkgName, oldLibPaths, last, ret>>

\* lines 122-123: require('devtools') finds no devtools, so install_github
\* is not a function of the session
install_github_122_missing ==
    /\ pc = "gh_122"
    /\ ~Available("devtools", searchPath)
    /\ Fails("not_found")
    /\ UNCHANGED <<searchPath, dirs, files, ret>>

\* lines 122-123: install_github(repo) installs into .libPaths()[1]
install_github_123 ==
    /\ pc = "gh_122"
    /\ Available("devtools", searchPath)
    /\ \E out \in InstallerOutputs(pkgName) : Installed(Head(searchPath), out)
    /\ pc' = "gh_124"
    /\ UNCHANGED <<searchPath, dirs, tmpDir, tmpPath, pkgName, oldLibPaths,
                   last, ret>>

\* install_github fails and the staging entry is cleaned up before the error
install_github_123_fail_cleanup ==
    /\ pc = "gh_122"
    /\ Available("devtools", searchPath)
    /\ removeUserLibPath(tmpPath)
    /\ Fails("installer_error")
    /\ UNCHANGED <<dirs, files, ret>>

\* line 123: install_github fails; the error ends the call
install_github_123_fail ==
    /\ pc = "gh_122"
    /\ Available("devtools", searchPath)
    /\ Fails("installer_error")
    /\ UNCHANGED <<searchPath, dirs, files, ret>>

\* line 124 without its effect on the search path
install_github_124_skip ==
    /\ pc = "gh_124"
    /\ pc' = "gh_125"
    /\ UNCHANGED <<searchPath, dirs, files, tmpDir, tmpPath, pkgName, oldLibPaths,
                   last, ret>>

\* line 124: usrLibPath = setUserLibPath()
install_github_124 ==
    /\ pc = "gh_124"
    /\ setUserLibPath(DefaultUsrLibPath)
    /\ pc' = "gh_125"
    /\ UNCHANGED <<files, tmpDir, tmpPath, pkgName, oldLibPaths, last,
                   ret>>

\* line 125: system("cp -r tmpPath/* usrLibPath")
install_github_125 ==
    /\ pc = "gh_125"
    /\ cp(tmpPath, usrLibPathVer(DefaultUsrLibPath))
    /\ pc' = "gh_126"
    /\ UNCHANGED <<searchPath, dirs, tmpDir, tmpPath, pkgName, oldLibPaths,
                   last, ret>>

\* lines 126-127 with the staging root removed instead of the staging entry
install_github_126_tmpDir ==
    /\ pc = "gh_126"
    /\ removeUserLibPath(tmpDir)
    /\ Returns(tmpDir)
    /\ UNCHANGED <<dirs, files>>

\* lines 126-127: removeUserLibPath(tmpPath); tmpDir
install_github_126 ==
    /\ pc = "gh_126"
    /\ removeUserLibPath(tmpPath)
    /\ Returns(tmpDir)
    /\ UNCHANGED <<dirs, files>>

----------------------------------------------------------------------------
\* databricks.install_version(pkgName, what.version, repo), lines 130-158

\* line 141: usrLibPath = setUserLibPath()
install_version_141 ==
    /\ pc = "idle"
    /\ CanTemp
    /\ pkgName' = "foo"
    /\ last' = Call("installSpecificVersion", "foo", "running")
    /\ setUserLibPath(DefaultUsrLibPath)
    /\ pc' = "iv_142"
    /\ ret' = NoValue
    /\ UNCHANGED <<files, tmpDir, tmpPath, oldLibPaths>>

\* lines 142-143: tmpDir <- tempfile(); dir.create(tmpDir)
install_version_142 ==
    /\ pc = "iv_142"
    /\ tmpDir' = tempfile
    /\ dirs' = dirs \cup {tmpDir'}
    /\ pc' = "iv_145"
    /\ UNCHANGED <<searchPath, files, tmpPath, pkgName, oldLibPaths, last,
                   ret>>

\* the helper check of lines 145-148 and of lines 150-153: both test
\* library('devtools'); when it is missing the body calls
\* databricks.install.packages(helper, repos=repo), whose formals are
\* (pkgName, repo): an unused-argument error, raised before its body runs
HelperCheck(checked, next) ==
    IF Available(checked, searchPath)
    THEN /\ pc' = next
         /\ UNCHANGED <<tmpDir, tmpPath, pkgName, oldLibPaths, last>>
    ELSE Fails("unused_argument")

\* lines 145-148: if (!library('devtools')) install devtools
install_version_145 ==
    /\ pc = "iv_145"
    /\ HelperCheck("devtools", "iv_150")
    /\ UNCHANGED <<searchPath, dirs, files, ret>>

\* lines 150-153: if (!library('devtools')) install withr
install_version_150 ==
    /\ pc = "iv_150"
    /\ HelperCheck("devtools", "iv_155")
    /\ UNCHANGED <<searchPath, dirs, files, ret>>

\* line 155: withr::with_libpaths cannot be loaded: withr is not installed
install_version_155_missing ==
    /\ pc = "iv_155"
    /\ ~Available("withr", searchPath)
    /\ Fails("not_found")
    /\ UNCHANGED <<searchPath, dirs, files, ret>>

\* with_libpaths without its restore on exit
with_libpaths_exit_norestore == searchPath' = searchPath

\* the search path with_libpaths restores when its code ends
with_libpaths_exit == searchPath' = libPaths(oldLibPaths, dirs)

\* line 155: with_libpaths(new=tmpDir, ...) saves the search path and
\* replaces it before it runs install_version
install_version_155_enter ==
    /\ pc = "iv_155"
    /\ Available("withr", searchPath)
    /\ oldLibPaths' = searchPath
    /\ searchPath' = libPaths(<<tmpDir>>, dirs)
    /\ pc' = "iv_155_code"
    /\ UNCHANGED <<dirs, files, tmpDir, tmpPath, pkgName, last, ret>>

\* line 155: install_version installs into .libPaths()[1]; with_libpaths
\* restores the search path
install_version_155 ==
    /\ pc = "iv_155_code"
    /\ \E out \in InstallerOutputs(pkgName) : Installed(Head(searchPath), out)
    /\ with_libpaths_exit
    /\ pc' = "iv_156"
    /\ oldLibPaths' = <<>>
    /\ UNCHANGED <<dirs, tmpDir, tmpPath, pkgName, last, ret>>

\* line 155: install_version fails; with_libpaths restores the search path
\* and the error ends the call
install_version_155_fail ==
    /\ pc = "iv_155_code"
    /\ with_libpaths_exit
    /\ Fails("installer_error")
    /\ UNCHANGED <<dirs, files, ret>>

\* lines 156-157: system("cp -r tmpDir/* usrLibPath"); tmpDir
install_version_156 ==
    /\ pc = "iv_156"
    /\ cp(tmpDir, usrLibPathVer(DefaultUsrLibPath))
    /\ Returns(tmpDir)
    /\ UNCHANGED <<searchPath, dirs>>

----------------------------------------------------------------------------

Next ==
    \/ SessionStart
    \/ SetUserLibPathCall
    \/ RemoveUserLibPathCall
    \/ getUserLibPath
    \/ install_packages_101
    \/ install_packages_102
    \/ install_packages_104
    \/ install_packages_104_fail
    \/ install_packages_105
    \/ install_packages_106
    \/ install_github_119
    \/ install_github_121
    \/ install_github_122_missing
    \/ install_github_123
    \/ install_github_123_fail
    \/ install_github_124
    \/ install_github_125
    \/ install_github_126
    \/ install_version_141
    \/ install_version_142
    \/ install_version_145
    \/ install_version_150
    \/ install_version_155_missing
    \/ install_version_155_enter
    \/ install_version_155
    \/ install_version_155_fail
    \/ install_version_156

Spec == Init /\ [][Next]_vars

----------------------------------------------------------------------------
\* Vocabulary of the properties

\* the canonical version-qualified library root
Canonical == usrLibPathVer(DefaultUsrLibPath)

\* sp with every occurrence of p taken out, the other entries in their order
Without(sp, p) == SelectSeq(sp, LAMBDA e : e # p)

\* how many times p occurs in sp
Count(sp, p) == Cardinality({i \in 1..Len(sp) : sp[i] = p})

\* the directories of the R installation that .libPaths always keeps
SystemLibs == {Library, LibrarySite}

\* the version-qualified staging entries databricks.install.github inserts
StagingEntries == {usrLibPathVer(t) : t \in TmpNames}

\* a call of op has just returned successfully
Returned(op) == pc = "idle" /\ last.op = op /\ last.status = "ok"

\* this step is a user's call of op that returns
StepOf(op) == pc = "idle" /\ pc' = "idle" /\ last'.op = op

\* this step is the installer failing inside a call
InstallerFailure == pc' = "idle" /\ last'.status = "installer_error"

----------------------------------------------------------------------------
\* C1: in every state a session reaches through any sequence of calls, the
\* search path holds no directory more than once.
C1_NoDuplicates ==
    \A i, j \in 1..Len(searchPath) : i # j => searchPath[i] # searchPath[j]

\* C1 witness: setUserLibPath(other root) returned on a search path that holds
\* a stale staging entry, the canonical root and the system libraries.
C1_Witness ==
    /\ Returned("setUserLibPath")
    /\ last.arg = OtherRoot
    /\ In(Canonical, searchPath)
    /\ \E e \in StagingEntries : In(e, searchPath)
    /\ Len(searchPath) >= 5

\* C2 as stated: whenever a management call (setUserLibPath with any root,
\* removeUserLibPath with any path, or an install call) has returned
\* successfully, the canonical root is the first entry of the search path.
C2_Original ==
    (/\ pc = "idle"
     /\ last.status = "ok"
     /\ last.op \in {"setUserLibPath", "removeUserLibPath", "installPackage",
                     "installFromSourceRepo", "installSpecificVersion"})
        => Head(searchPath) = Canonical

\* C2 amended: the canonical root is the first entry of the search path
\* whenever the session-start call, setUserLibPath with the default root,
\* installPackage, installFromSourceRepo or installSpecificVersion returns
\* successfully; removeUserLibPath(p) with p other than the canonical root
\* keeps it first when it was first.
C2_CanonicalFirst ==
    [][/\ (/\ pc' = "idle"
           /\ last'.status = "ok"
           /\ \/ last'.op \in {"sessionStart", "installPackage",
                               "installFromSourceRepo", "installSpecificVersion"}
              \/ last'.op = "setUserLibPath" /\ last'.arg = DefaultUsrLibPath)
          => Head(searchPath') = Canonical
       /\ (/\ StepOf("removeUserLibPath")
           /\ last'.arg # Canonical
           /\ Head(searchPath) = Canonical)
          => Head(searchPath') = Canonical]_vars

\* C2 witness: installFromSourceRepo returned successfully, after it had put
\* its staging entry in front, and the canonical root is first again.
C2_Witness ==
    /\ Returned("installFromSourceRepo")
    /\ Head(searchPath) = Canonical
    /\ In(usrLibPathVer(OtherRoot), searchPath)

\* C3: one call setUserLibPath(r) on search path P commits [q] followed by the
\* entries of P other than q in their order, q the version-qualified
\* subdirectory of r, and returns q; a further setUserLibPath(r) leaves that
\* search path identical, so q occurs once and the length does not grow.
C3_SetIdempotent ==
    [][StepOf("setUserLibPath") =>
         LET r == last'.arg
             q == usrLibPathVer(r)
             again == SetUserLibPathResult(searchPath', dirs', r)
         IN /\ searchPath' = <<q>> \o Without(searchPath, q)
            /\ ret'.path = q
            /\ again = searchPath'
            /\ Count(again, q) = 1
            /\ Len(again) = Len(searchPath')]_vars

\* C3 witness: setUserLibPath(other root) returned with its qualified path in
\* front of the canonical root and the two system libraries.
C3_Witness ==
    /\ Returned("setUserLibPath")
    /\ searchPath = <<usrLibPathVer(OtherRoot), Canonical, LibrarySite, Library>>

\* C4 as stated: removeUserLibPath(p) on search path P, for every path p,
\* returns and commits P with p removed, the other entries in their order.
C4_Original ==
    [][StepOf("removeUserLibPath") =>
         /\ ret'.search = Without(searchPath, last'.arg)
         /\ searchPath' = Without(searchPath, last'.arg)]_vars

\* C4 amended: for every path p other than the two library directories of
\* the R installation, removeUserLibPath(p) on search path P returns and
\* commits P with p removed, the other entries in their order; when p is not
\* in P the search path is unchanged; a second removeUserLibPath(p) returns
\* the same search path and changes nothing.  For p one of the two system
\* library directories the call returns P without p and the committed search
\* path still holds p.
C4_RemoveIdempotent ==
    [][StepOf("removeUserLibPath") =>
         LET p == last'.arg
         IN /\ ret'.search = Without(searchPath, p)
            /\ p \notin SystemLibs =>
                 /\ searchPath' = Without(searchPath, p)
                 /\ ~In(p, searchPath) => searchPath' = searchPath
                 /\ RemovedSearchPath(searchPath', p) = ret'.search
                 /\ RemoveCommitted(searchPath', dirs', p) = searchPath'
            /\ p \in SystemLibs => In(p, searchPath')]_vars

\* C4 witness: removeUserLibPath(canonical root) returned a search path that
\* no longer holds it, the other root's entry still in front.
C4_Witness ==
    /\ Returned("removeUserLibPath")
    /\ last.arg = Canonical
    /\ ret.search = searchPath
    /\ ~In(Canonical, searchPath)
    /\ Head(searchPath) = usrLibPathVer(OtherRoot)

C7_Original ==
    [][InstallerFailure =>
         /\ files' = files
         /\ Range(searchPath) \subseteq Range(searchPath')]_vars

\* C7 amended: when the installer fails inside an install call the call ends
\* there: nothing is copied and no cleanup runs.  In installPackage and
\* installFromSourceRepo the search path is left as it was at the failure, so
\* the canonical root stays on it and in installFromSourceRepo the staging
\* entry stays in front; in installSpecificVersion the scoped override is
\* reverted, which takes the staging directory off again and leaves the
\* canonical root, inserted by setUserLibPath, in front.
C7_NoRollback ==
    [][InstallerFailure =>
         /\ files' = files
         /\ dirs' = dirs
         /\ pc \in {"ip_104", "gh_122", "iv_155_code"}
         /\ pc = "ip_104" => /\ searchPath' = searchPath
                             /\ Head(searchPath') = Canonical
         /\ pc = "gh_122" => /\ searchPath' = searchPath
                             /\ Head(searchPath') = tmpPath
                             /\ tmpPath \in StagingEntries
         /\ pc = "iv_155_code" => /\ searchPath' = oldLibPaths
                                  /\ ~In(tmpDir, searchPath')
                                  /\ Head(searchPath') = Canonical]_vars

\* C7 witness: installFromSourceRepo ended with the installer's error and its
\* staging entry is still the first entry of the search path.
C7_Witness ==
    /\ pc = "idle"
    /\ last.op = "installFromSourceRepo"
    /\ last.status = "installer_error"
    /\ Head(searchPath) \in StagingEntries
    /\ In(Canonical, searchPath)

C9_HelpersEnsured ==
    last.op = "installSpecificVersion" =>
        /\ last.status # "unused_argument"
        /\ pc = "iv_155" => /\ Available("devtools", searchPath)
                            /\ Available("withr", searchPath)

\* C10: in installSpecificVersion the staging directory is on the search path
\* only while the version-pinned install runs: the call saves the search path
\* as it enters, and when the install ends, by success or by failure, the
\* search path is exactly the saved one, so the staging directory is not on
\* the search path when installSpecificVersion returns.
C10_ScopedOverride ==
    [][/\ (pc = "iv_155" /\ pc' = "iv_155_code") =>
             /\ oldLibPaths' = searchPath
             /\ Head(searchPath') = tmpDir
       /\ (pc = "iv_155_code" /\ pc' # pc) =>
             /\ searchPath' = oldLibPaths
             /\ ~In(tmpDir, searchPath')
             /\ pc' \in {"iv_156", "idle"}
       /\ (pc \in {"iv_145", "iv_150", "iv_155", "iv_156"}) =>
             ~In(tmpDir, searchPath)
       /\ (pc' = "idle" /\ last'.op = "installSpecificVersion"
           /\ last'.status = "ok") => ~In(ret'.path, searchPath')]_vars

\* C10 witness: installSpecificVersion ended with the installer's error, its
\* staging directory on disk and off the search path, the canonical root in
\* front.
C10_Witness ==
    /\ pc = "idle"
    /\ last.op = "installSpecificVersion"
    /\ last.status = "installer_error"
    /\ Head(searchPath) = Canonical
    /\ \A t \in TmpNames : ~In(t, searchPath)

====
